---- MODULE Spec2Model ----
(***************************************************************************)
(* regbus: DBReg<T> (double-buffered latest-value register), CmdReg<T>     *)
(* (edge-triggered command register) and the Registry that holds one       *)
(* register per key.  Every atomic load/store/fetch_add of the source is   *)
(* one step; the copy of the payload T (a plain struct, not atomic) is one *)
(* step per field, so two threads that copy the same object concurrently   *)
(* interleave field by field.  Atomics are sequentially consistent here.   *)
(***************************************************************************)
EXTENDS Integers, FiniteSets, Sequences, TLC

\* ---- bounds -------------------------------------------------------------
NumReaders   == 1    \* reader threads beside the single writer
NumWriters   == 2    \* writer threads of the multi-writer runs
NumConsumers == 2    \* consumer threads beside the poster
MaxWrites  == 3      \* write calls per data register in one run
MaxPosts   == 2      \* post calls per command register in one run
MaxRegWrites == 2    \* write calls per data key of the registry in one run
MaxRegPosts  == 1    \* post calls per command key of the registry in one run
MaxLiveWrites == 2   \* write calls in the runs that check termination
MaxKeys    == 3      \* longest declared key list Keys... of a registry
SeqBits    == 2      \* width in bits of the sequence counter (32 in DBReg.hpp)

\* ---- keys, threads, payload --------------------------------------------
DataKeys == {"A", "B"}
CmdKeys  == {"GO"}
Max(x, y) == IF x > y THEN x ELSE y
Min(x, y) == IF x < y THEN x ELSE y
Threads  == 1..(1 + Max(NumWriters, Max(NumReaders, NumConsumers)))

\* largest value of a payload field (the all-ones pattern); the field is one
\* bit wider than the counter, so that the write calls of a run that goes
\* through all the counter's values carry distinct values
FieldMax == 2 ^ (SeqBits + 1) - 1
\* ~i on a field whose all-ones pattern is FieldMax
NotField(i) == FieldMax - i
\* the payload of the stress tests: struct S { a; b; } written as S{i, ~i}
S(i) == [a |-> i, b |-> NotField(i)]
\* the writer loops of the tests pass S{i, ~i} with a fresh i on every call:
\* the n-th write (post) call on a register passes S(n)
NextVal(n) == S(n + 1)
\* the values of the sequence counter seq_ctr_ are 0 .. SeqMod - 1
SeqMod == 2 ^ SeqBits
\* T{}: the value-initialised payload
DefaultT == [a |-> 0, b |-> 0]
\* the history of a register follows its first HistMax write calls: one more
\* than the range of the sequence counter
HistMax == SeqMod + 1
\* the history h extended by x, while it is being followed
Record(h, x) == IF Len(h) < HistMax THEN Append(h, x) ELSE h

VARIABLES
    \* DBReg<T>, one per data key
    buf_, seq_, seq_ctr_, idx_, has_,
    \* CmdReg<T>, one per command key
    val_, ready_,
    \* each thread: where it is, the call it runs (or ran last), on which key
    pc, op, key,
    \* locals of write/post
    v, nxt, s,
    \* locals of read
    i1, s1, tmp, want_seq,
    \* the caller's out, *out_seq and the returned bool
    out, out_seq, ret,
    \* history of the data registers (not program state)
    written, started, completed, lastv, rafter, rvalid, hasSeen, rose, lastflip, drawn, flipped, stampv, s1v, rfloor,
    \* history of the command registers (not program state)
    posted, nposts, nsucc, lastposted, taint, cleanPosts, consSince, cord, cn,
    \* the state of the edge state machine, driven by the returns of post and consume
    edge,
    \* what is fixed at compile time: the declared key list Keys..., the key K
    \* being resolved, the index idx<K>() yields, the order in which the
    \* implementation of std::tuple lays its elements out, sizeof(Registry),
    \* and how far the compilation has got
    decl, want, ires, order, bytes_, ctpc

dbvars   == <<buf_, seq_, seq_ctr_, idx_, has_>>
cmdvars  == <<val_, ready_>>
ctlvars  == <<pc, op, key>>
wlocals  == <<v, nxt, s>>
rlocals  == <<i1, s1, tmp, want_seq>>
results  == <<out, out_seq, ret>>
dbhist   == <<written, started, completed, lastv, rafter, rvalid, hasSeen, rose, lastflip, drawn, flipped, stampv, s1v, rfloor>>
cmdhist  == <<posted, nposts, nsucc, lastposted, taint, cleanPosts, consSince, cord, cn, edge>>
ctvars   == <<decl, want, ires, order, bytes_, ctpc>>
vars     == <<dbvars, cmdvars, ctlvars, wlocals, rlocals, results, dbhist, cmdhist, ctvars>>

\* threads other than t that are inside a call on key k
Busy(t, k) == {u \in Threads \ {t} : pc[u] # "idle" /\ key[u] = k}

\* the locations of read after the first load of idx_ of an iteration
AfterIdx1 == {"r_seq1", "r_copy_a", "r_copy_b", "r_idx2", "r_seq2"}

\* threads inside a write call on key k
Writing(k) == {u \in Threads : key[u] = k /\ pc[u] \in {"w_copy_a", "w_copy_b", "w_fetch_add",
                                                        "w_seq_store", "w_idx_store", "w_has_store"}}

\* ---- construction -------------------------------------------------------
\* variant: has_ constructed true
DBRegInitHasValue ==
    /\ buf_     = [k \in DataKeys |-> [i \in 0..1 |-> DefaultT]]
    /\ seq_     = [k \in DataKeys |-> [i \in 0..1 |-> 0]]
    /\ seq_ctr_ = [k \in DataKeys |-> 0]
    /\ idx_     = [k \in DataKeys |-> 0]
    /\ has_     = [k \in DataKeys |-> TRUE]

\* DBReg(): idx_(0), has_(false), seq_[0] = seq_[1] = 0; buf_[2]{}, seq_ctr_{0}
DBRegInit ==
    /\ buf_     = [k \in DataKeys |-> [i \in 0..1 |-> DefaultT]]
    /\ seq_     = [k \in DataKeys |-> [i \in 0..1 |-> 0]]
    /\ seq_ctr_ = [k \in DataKeys |-> 0]
    /\ idx_     = [k \in DataKeys |-> 0]
    /\ has_     = [k \in DataKeys |-> FALSE]

\* CmdReg: val_{}, ready_{false}
CmdRegInit ==
    /\ val_   = [k \in CmdKeys |-> DefaultT]
    /\ ready_ = [k \in CmdKeys |-> FALSE]

\* the registers and the threads after construction
ProgInit ==
    /\ DBRegInit
    /\ CmdRegInit
    /\ pc  = [t \in Threads |-> "idle"]
    /\ op  = [t \in Threads |-> "none"]
    /\ key = [t \in Threads |-> "A"]
    /\ v   = [t \in Threads |-> DefaultT]
    /\ nxt = [t \in Threads |-> 0]
    /\ s   = [t \in Threads |-> 0]
    /\ i1  = [t \in Threads |-> 0]
    /\ s1  = [t \in Threads |-> 0]
    /\ tmp = [t \in Threads |-> DefaultT]
    /\ want_seq = [t \in Threads |-> FALSE]
    /\ out     = [t \in Threads |-> DefaultT]
    /\ out_seq = [t \in Threads |-> 0]
    /\ ret     = [t \in Threads |-> FALSE]
    /\ written   = [k \in DataKeys |-> {}]
    /\ started   = [k \in DataKeys |-> 0]
    /\ completed = [k \in DataKeys |-> 0]
    /\ lastv     = [k \in DataKeys |-> DefaultT]
    /\ rafter    = [t \in Threads |-> FALSE]
    /\ rvalid    = [t \in Threads |-> FALSE]
    /\ hasSeen   = [k \in DataKeys |-> FALSE]
    /\ rose      = [t \in Threads |-> FALSE]
    /\ lastflip  = [k \in DataKeys |-> DefaultT]
    /\ drawn     = [k \in DataKeys |-> <<>>]
    /\ flipped   = [t \in Threads |-> FALSE]
    /\ stampv    = [k \in DataKeys |-> [i \in 0..1 |-> DefaultT]]
    /\ s1v       = [t \in Threads |-> DefaultT]
    /\ rfloor    = [t \in Threads |-> 0]
    /\ posted     = [k \in CmdKeys |-> {}]
    /\ nposts     = [k \in CmdKeys |-> 0]
    /\ nsucc      = [k \in CmdKeys |-> 0]
    /\ lastposted = [k \in CmdKeys |-> DefaultT]
    /\ taint      = [k \in CmdKeys |-> FALSE]
    /\ cleanPosts = [k \in CmdKeys |-> 0]
    /\ consSince  = [k \in CmdKeys |-> 0]
    /\ cord       = [t \in Threads |-> 0]
    /\ cn         = [t \in Threads |-> 0]
    /\ edge       = [k \in CmdKeys |-> "Empty"]

\* the registry of the tests: Registry<K, Traits, K::A, K::B, K::CMD_GO>
CtInit ==
    /\ decl   = <<"A", "B", "GO">>
    /\ want   = "A"
    /\ ires   = {}
    /\ order  = "fwd"
    /\ bytes_ = 0
    /\ ctpc   = "run"

Init == ProgInit /\ CtInit

\* ---- DBReg::write -------------------------------------------------------
\* call write(val) on key k; cur = idx_.load(acquire), nxt = cur ^ 1
WriteBegin(t, k, val) ==
    /\ pc[t] = "idle"
    /\ pc'  = [pc EXCEPT ![t] = "w_copy_a"]
    /\ op'  = [op EXCEPT ![t] = "write"]
    /\ key' = [key EXCEPT ![t] = k]
    /\ v'   = [v EXCEPT ![t] = val]
    /\ nxt' = [nxt EXCEPT ![t] = 1 - idx_[k]]
    /\ written' = [written EXCEPT ![k] = @ \cup {val}]
    /\ started' = [started EXCEPT ![k] = Min(@ + 1, HistMax)]
    /\ rvalid'  = [u \in Threads |-> IF key[u] = k THEN FALSE ELSE rvalid[u]]
    /\ UNCHANGED <<ctvars, rfloor, stampv, s1v, flipped, dbvars, cmdvars, s, rlocals, results, completed, lastv, rafter, hasSeen, rose, lastflip, drawn, cmdhist>>

\* variant: the copy waits until no other thread is inside write (a lock)
WriteCopyALocked(t) ==
    /\ pc[t] = "w_copy_a"
    /\ Writing(key[t]) \ {t} = {}
    /\ buf_' = [buf_ EXCEPT ![key[t]][nxt[t]].a = v[t].a]
    /\ pc'   = [pc EXCEPT ![t] = "w_copy_b"]
    /\ UNCHANGED <<ctvars, seq_, seq_ctr_, idx_, has_, cmdvars, op, key, wlocals, rlocals, results, dbhist, cmdhist>>

\* buf_[nxt] = v, first field
WriteCopyA(t) ==
    /\ pc[t] = "w_copy_a"
    /\ buf_' = [buf_ EXCEPT ![key[t]][nxt[t]].a = v[t].a]
    /\ pc'   = [pc EXCEPT ![t] = "w_copy_b"]
    /\ UNCHANGED <<ctvars, seq_, seq_ctr_, idx_, has_, cmdvars, op, key, wlocals, rlocals, results, dbhist, cmdhist>>

\* buf_[nxt] = v, second field
WriteCopyB(t) ==
    /\ pc[t] = "w_copy_b"
    /\ buf_' = [buf_ EXCEPT ![key[t]][nxt[t]].b = v[t].b]
    /\ pc'   = [pc EXCEPT ![t] = "w_fetch_add"]
    /\ UNCHANGED <<ctvars, seq_, seq_ctr_, idx_, has_, cmdvars, op, key, wlocals, rlocals, results, dbhist, cmdhist>>

\* variant: one sequence counter shared by all the registers of the registry
WriteFetchAddShared(t) ==
    /\ pc[t] = "w_fetch_add"
    /\ seq_ctr_' = [k \in DataKeys |-> (seq_ctr_[k] + 1) % SeqMod]
    /\ s'  = [s EXCEPT ![t] = (seq_ctr_[key[t]] + 1) % SeqMod]
    /\ pc' = [pc EXCEPT ![t] = "w_seq_store"]
    /\ drawn' = [drawn EXCEPT ![key[t]] = Record(@, (seq_ctr_[key[t]] + 1) % SeqMod)]
    /\ UNCHANGED <<ctvars, rfloor, stampv, s1v, flipped, buf_, seq_, idx_, has_, cmdvars, op, key, v, nxt, rlocals, results,
                   written, started, completed, lastv, rafter, rvalid, hasSeen, rose, lastflip, cmdhist>>

\* variant: the counter is loaded and incremented locally, never stored back
WriteFetchAddLoadOnly(t) ==
    /\ pc[t] = "w_fetch_add"
    /\ s'  = [s EXCEPT ![t] = (seq_ctr_[key[t]] + 1) % SeqMod]
    /\ pc' = [pc EXCEPT ![t] = "w_seq_store"]
    /\ drawn' = [drawn EXCEPT ![key[t]] = Record(@, (seq_ctr_[key[t]] + 1) % SeqMod)]
    /\ UNCHANGED <<ctvars, rfloor, stampv, s1v, flipped, dbvars, cmdvars, op, key, v, nxt, rlocals, results,
                   written, started, completed, lastv, rafter, rvalid, hasSeen, rose, lastflip, cmdhist>>

\* s = seq_ctr_.fetch_add(1, acq_rel) + 1, on a uint32_t counter
WriteFetchAdd(t) ==
    /\ pc[t] = "w_fetch_add"
    /\ seq_ctr_' = [seq_ctr_ EXCEPT ![key[t]] = (@ + 1) % SeqMod]
    /\ s'  = [s EXCEPT ![t] = (seq_ctr_[key[t]] + 1) % SeqMod]
    /\ pc' = [pc EXCEPT ![t] = "w_seq_store"]
    /\ drawn' = [drawn EXCEPT ![key[t]] = Record(@, (seq_ctr_[key[t]] + 1) % SeqMod)]
    /\ UNCHANGED <<ctvars, rfloor, stampv, s1v, flipped, buf_, seq_, idx_, has_, cmdvars, op, key, v, nxt, rlocals, results,
                   written, started, completed, lastv, rafter, rvalid, hasSeen, rose, lastflip, cmdhist>>

\* variant: the sequence is stamped on the active slot, seq_[cur], not on seq_[nxt]
WriteSeqStoreActiveSlot(t) ==
    /\ pc[t] = "w_seq_store"
    /\ seq_' = [seq_ EXCEPT ![key[t]][1 - nxt[t]] = s[t]]
    /\ pc'   = [pc EXCEPT ![t] = "w_idx_store"]
    /\ stampv' = [stampv EXCEPT ![key[t]][1 - nxt[t]] = v[t]]
    /\ UNCHANGED <<ctvars, rfloor, s1v, buf_, seq_ctr_, idx_, has_, cmdvars, op, key, wlocals, rlocals, results,
                   written, started, completed, lastv, rafter, rvalid, hasSeen, rose, lastflip, drawn, flipped, cmdhist>>

\* seq_[nxt].store(s, release); the history keeps, for the slot, the argument
\* of the write call that stamped it
WriteSeqStore(t) ==
    /\ pc[t] = "w_seq_store"
    /\ seq_' = [seq_ EXCEPT ![key[t]][nxt[t]] = s[t]]
    /\ pc'   = [pc EXCEPT ![t] = "w_idx_store"]
    /\ stampv' = [stampv EXCEPT ![key[t]][nxt[t]] = v[t]]
    /\ UNCHANGED <<ctvars, rfloor, s1v, buf_, seq_ctr_, idx_, has_, cmdvars, op, key, wlocals, rlocals, results,
                   written, started, completed, lastv, rafter, rvalid, hasSeen, rose, lastflip, drawn, flipped, cmdhist>>

\* variant: idx_ is stored back unchanged (cur, not nxt)
WriteIdxStoreStale(t) ==
    /\ pc[t] = "w_idx_store"
    /\ idx_' = [idx_ EXCEPT ![key[t]] = 1 - nxt[t]]
    /\ pc'   = [pc EXCEPT ![t] = "w_has_store"]
    /\ lastflip' = [lastflip EXCEPT ![key[t]] = v[t]]
    /\ flipped'  = [u \in Threads |-> flipped[u] \/ (key[u] = key[t] /\ pc[u] \in AfterIdx1)]
    /\ UNCHANGED <<ctvars, rfloor, stampv, s1v, buf_, seq_, seq_ctr_, has_, cmdvars, op, key, wlocals, rlocals, results,
                   written, started, completed, lastv, rafter, rvalid, hasSeen, rose, drawn, cmdhist>>

\* idx_.store(nxt, release)
WriteIdxStore(t) ==
    /\ pc[t] = "w_idx_store"
    /\ idx_' = [idx_ EXCEPT ![key[t]] = nxt[t]]
    /\ pc'   = [pc EXCEPT ![t] = "w_has_store"]
    /\ lastflip' = [lastflip EXCEPT ![key[t]] = v[t]]
    /\ flipped'  = [u \in Threads |-> flipped[u] \/ (key[u] = key[t] /\ pc[u] \in AfterIdx1)]
    /\ UNCHANGED <<ctvars, rfloor, stampv, s1v, buf_, seq_, seq_ctr_, has_, cmdvars, op, key, wlocals, rlocals, results,
                   written, started, completed, lastv, rafter, rvalid, hasSeen, rose, drawn, cmdhist>>

\* variant: write returns without the store to has_
WriteHasStoreSkipped(t) ==
    /\ pc[t] = "w_has_store"
    /\ pc'   = [pc EXCEPT ![t] = "idle"]
    /\ v'    = [v EXCEPT ![t] = DefaultT]
    /\ nxt'  = [nxt EXCEPT ![t] = 0]
    /\ s'    = [s EXCEPT ![t] = 0]
    /\ completed' = [completed EXCEPT ![key[t]] = Min(@ + 1, HistMax)]
    /\ lastv'     = [lastv EXCEPT ![key[t]] = v[t]]
    /\ UNCHANGED <<ctvars, rfloor, stampv, s1v, flipped, dbvars, cmdvars, op, key, rlocals, results,
                   written, started, rafter, rvalid, hasSeen, rose, lastflip, drawn, cmdhist>>

\* has_.store(true, release); return
WriteHasStore(t) ==
    /\ pc[t] = "w_has_store"
    /\ has_' = [has_ EXCEPT ![key[t]] = TRUE]
    /\ pc'   = [pc EXCEPT ![t] = "idle"]
    /\ v'    = [v EXCEPT ![t] = DefaultT]
    /\ nxt'  = [nxt EXCEPT ![t] = 0]
    /\ s'    = [s EXCEPT ![t] = 0]
    /\ completed' = [completed EXCEPT ![key[t]] = Min(@ + 1, HistMax)]
    /\ lastv'     = [lastv EXCEPT ![key[t]] = v[t]]
    /\ UNCHANGED <<ctvars, rfloor, stampv, s1v, flipped, buf_, seq_, seq_ctr_, idx_, cmdvars, op, key, rlocals, results,
                   written, started, rafter, rvalid, hasSeen, rose, lastflip, drawn, cmdhist>>

\* ---- DBReg::read --------------------------------------------------------
\* the history a read call records when it begins
ReadHist(t, k) ==
    /\ rafter' = [rafter EXCEPT ![t] = completed[k] >= 1]
    /\ rvalid' = [rvalid EXCEPT ![t] = completed[k] >= 1 /\ Writing(k) = {}]

\* call read(out, out_seq) on key k; has_.load(acquire) is false: return false
ReadNoValue(t, k) ==
    /\ pc[t] = "idle"
    /\ ~has_[k]
    /\ op'  = [op EXCEPT ![t] = "read"]
    /\ key' = [key EXCEPT ![t] = k]
    /\ ret' = [ret EXCEPT ![t] = FALSE]
    /\ ReadHist(t, k)
    /\ UNCHANGED <<ctvars, rfloor, stampv, s1v, flipped, dbvars, cmdvars, pc, wlocals, rlocals, out, out_seq,
                   written, started, completed, lastv, hasSeen, rose, lastflip, drawn, cmdhist>>

\* call read(out, out_seq) on key k; has_.load(acquire) is true: enter the loop
\* (the call has no result until it returns: ret is cleared on entry); the
\* history keeps floor for the call
ReadEnter(t, k, ws, floor) ==
    /\ pc[t] = "idle"
    /\ has_[k]
    /\ pc'  = [pc EXCEPT ![t] = "r_idx1"]
    /\ op'  = [op EXCEPT ![t] = "read"]
    /\ key' = [key EXCEPT ![t] = k]
    /\ want_seq' = [want_seq EXCEPT ![t] = ws]
    /\ ret' = [ret EXCEPT ![t] = FALSE]
    /\ ReadHist(t, k)
    /\ rfloor' = [rfloor EXCEPT ![t] = floor]
    /\ UNCHANGED <<ctvars, stampv, s1v, flipped, dbvars, cmdvars, wlocals, i1, s1, tmp, out, out_seq,
                   written, started, completed, lastv, hasSeen, rose, lastflip, drawn, cmdhist>>

\* read(out, out_seq) entered
ReadBegin(t, k, ws) == ReadEnter(t, k, ws, rfloor[t])

\* read(out, out_seq) entered, the history keeping the number of write calls
\* on k that have returned
ReadBeginAfter(t, k, ws) == ReadEnter(t, k, ws, completed[k])

\* i1 = idx_.load(acquire)
ReadIdx1(t) ==
    /\ pc[t] = "r_idx1"
    /\ i1' = [i1 EXCEPT ![t] = idx_[key[t]]]
    /\ pc' = [pc EXCEPT ![t] = "r_seq1"]
    /\ UNCHANGED <<ctvars, dbvars, cmdvars, op, key, wlocals, s1, tmp, want_seq, results, dbhist, cmdhist>>

\* s1 = seq_[i1].load(acquire); the history keeps the argument of the write
\* call whose stamp is loaded
ReadSeq1(t) ==
    /\ pc[t] = "r_seq1"
    /\ s1' = [s1 EXCEPT ![t] = seq_[key[t]][i1[t]]]
    /\ pc' = [pc EXCEPT ![t] = "r_copy_a"]
    /\ s1v' = [s1v EXCEPT ![t] = stampv[key[t]][i1[t]]]
    /\ UNCHANGED <<ctvars, rfloor, stampv, dbvars, cmdvars, op, key, wlocals, i1, tmp, want_seq, results,
                   written, started, completed, lastv, rafter, rvalid, hasSeen, rose, lastflip, drawn, flipped, cmdhist>>

\* variant: the copy is taken from the register of the first key of the list
ReadCopyAFirstKey(t) ==
    /\ pc[t] = "r_copy_a"
    /\ tmp' = [tmp EXCEPT ![t].a = buf_["A"][i1[t]].a]
    /\ pc'  = [pc EXCEPT ![t] = "r_copy_b"]
    /\ UNCHANGED <<ctvars, dbvars, cmdvars, op, key, wlocals, i1, s1, want_seq, results, dbhist, cmdhist>>

\* variant: the first field is copied straight into the caller's out
ReadCopyAIntoOut(t) ==
    /\ pc[t] = "r_copy_a"
    /\ tmp' = [tmp EXCEPT ![t].a = buf_[key[t]][i1[t]].a]
    /\ out' = [out EXCEPT ![t].a = buf_[key[t]][i1[t]].a]
    /\ pc'  = [pc EXCEPT ![t] = "r_copy_b"]
    /\ UNCHANGED <<ctvars, dbvars, cmdvars, op, key, wlocals, i1, s1, want_seq, out_seq, ret, dbhist, cmdhist>>

\* T tmp = buf_[i1], first field
ReadCopyA(t) ==
    /\ pc[t] = "r_copy_a"
    /\ tmp' = [tmp EXCEPT ![t].a = buf_[key[t]][i1[t]].a]
    /\ pc'  = [pc EXCEPT ![t] = "r_copy_b"]
    /\ UNCHANGED <<ctvars, dbvars, cmdvars, op, key, wlocals, i1, s1, want_seq, results, dbhist, cmdhist>>

\* T tmp = buf_[i1], second field
ReadCopyB(t) ==
    /\ pc[t] = "r_copy_b"
    /\ tmp' = [tmp EXCEPT ![t].b = buf_[key[t]][i1[t]].b]
    /\ pc'  = [pc EXCEPT ![t] = "r_idx2"]
    /\ UNCHANGED <<ctvars, dbvars, cmdvars, op, key, wlocals, i1, s1, want_seq, results, dbhist, cmdhist>>

\* i2 = idx_.load(acquire); i1 == i2 holds: go on to the sequence check
ReadIdx2Same(t) ==
    /\ pc[t] = "r_idx2"
    /\ idx_[key[t]] = i1[t]
    /\ pc' = [pc EXCEPT ![t] = "r_seq2"]
    /\ UNCHANGED <<ctvars, dbvars, cmdvars, op, key, wlocals, rlocals, results, dbhist, cmdhist>>

\* i2 = idx_.load(acquire); i1 != i2: next iteration of for (;;)
ReadIdx2Differs(t) ==
    /\ pc[t] = "r_idx2"
    /\ idx_[key[t]] # i1[t]
    /\ flipped' = [flipped EXCEPT ![t] = FALSE]
    /\ pc' = [pc EXCEPT ![t] = "r_idx1"]
    /\ UNCHANGED <<ctvars, rfloor, stampv, s1v, dbvars, cmdvars, op, key, wlocals, rlocals, results, written, started, completed, lastv, rafter, rvalid, hasSeen, rose, lastflip, drawn, cmdhist>>

\* variant: the copy is accepted on i1 == i2 alone, without the sequence check
ReadValidatedNoSeqCheck(t) ==
    /\ pc[t] = "r_seq2"
    /\ out'     = [out EXCEPT ![t] = tmp[t]]
    /\ out_seq' = [out_seq EXCEPT ![t] = IF want_seq[t] THEN s1[t] ELSE @]
    /\ ret'     = [ret EXCEPT ![t] = TRUE]
    /\ flipped' = [flipped EXCEPT ![t] = FALSE]
    /\ pc'  = [pc EXCEPT ![t] = "idle"]
    /\ i1'  = [i1 EXCEPT ![t] = 0]
    /\ s1'  = [s1 EXCEPT ![t] = 0]
    /\ tmp' = [tmp EXCEPT ![t] = DefaultT]
    /\ want_seq' = [want_seq EXCEPT ![t] = FALSE]
    /\ rose' = [rose EXCEPT ![t] = @ \/ (want_seq[t] /\ out_seq[t] > 0 /\ s1[t] > out_seq[t])]
    /\ UNCHANGED <<ctvars, rfloor, stampv, s1v, dbvars, cmdvars, op, key, wlocals,
                   written, started, completed, lastv, rafter, rvalid, hasSeen, lastflip, drawn, cmdhist>>

\* variant: the copy is validated against the sequence counter, s1 == seq_ctr_
ReadValidatedAgainstCounter(t) ==
    /\ pc[t] = "r_seq2"
    /\ seq_ctr_[key[t]] = s1[t]
    /\ out'     = [out EXCEPT ![t] = tmp[t]]
    /\ out_seq' = [out_seq EXCEPT ![t] = IF want_seq[t] THEN s1[t] ELSE @]
    /\ ret'     = [ret EXCEPT ![t] = TRUE]
    /\ flipped' = [flipped EXCEPT ![t] = FALSE]
    /\ pc'  = [pc EXCEPT ![t] = "idle"]
    /\ i1'  = [i1 EXCEPT ![t] = 0]
    /\ s1'  = [s1 EXCEPT ![t] = 0]
    /\ tmp' = [tmp EXCEPT ![t] = DefaultT]
    /\ want_seq' = [want_seq EXCEPT ![t] = FALSE]
    /\ rose' = [rose EXCEPT ![t] = @ \/ (want_seq[t] /\ out_seq[t] > 0 /\ s1[t] > out_seq[t])]
    /\ UNCHANGED <<ctvars, rfloor, stampv, s1v, dbvars, cmdvars, op, key, wlocals,
                   written, started, completed, lastv, rafter, rvalid, hasSeen, lastflip, drawn, cmdhist>>

\* s1 == seq_[i1].load(acquire): out = tmp; if (out_seq) *out_seq = s1; return true
ReadValidated(t) ==
    /\ pc[t] = "r_seq2"
    /\ seq_[key[t]][i1[t]] = s1[t]
    /\ out'     = [out EXCEPT ![t] = tmp[t]]
    /\ out_seq' = [out_seq EXCEPT ![t] = IF want_seq[t] THEN s1[t] ELSE @]
    /\ ret'     = [ret EXCEPT ![t] = TRUE]
    /\ flipped' = [flipped EXCEPT ![t] = FALSE]
    /\ pc'  = [pc EXCEPT ![t] = "idle"]
    /\ i1'  = [i1 EXCEPT ![t] = 0]
    /\ s1'  = [s1 EXCEPT ![t] = 0]
    /\ tmp' = [tmp EXCEPT ![t] = DefaultT]
    /\ want_seq' = [want_seq EXCEPT ![t] = FALSE]
    /\ rose' = [rose EXCEPT ![t] = @ \/ (want_seq[t] /\ out_seq[t] > 0 /\ s1[t] > out_seq[t])]
    /\ UNCHANGED <<ctvars, rfloor, stampv, s1v, dbvars, cmdvars, op, key, wlocals,
                   written, started, completed, lastv, rafter, rvalid, hasSeen, lastflip, drawn, cmdhist>>

\* s1 != seq_[i1].load(acquire): next iteration of for (;;)
ReadSeqChanged(t) ==
    /\ pc[t] = "r_seq2"
    /\ seq_[key[t]][i1[t]] # s1[t]
    /\ flipped' = [flipped EXCEPT ![t] = FALSE]
    /\ pc' = [pc EXCEPT ![t] = "r_idx1"]
    /\ UNCHANGED <<ctvars, rfloor, stampv, s1v, dbvars, cmdvars, op, key, wlocals, rlocals, results, written, started, completed, lastv, rafter, rvalid, hasSeen, rose, lastflip, drawn, cmdhist>>

\* ---- DBReg::has ---------------------------------------------------------
\* variant: has() answers from the sequence counter instead of has_
HasBySeqCtr(t, k) ==
    /\ pc[t] = "idle"
    /\ op'  = [op EXCEPT ![t] = "has"]
    /\ key' = [key EXCEPT ![t] = k]
    /\ ret' = [ret EXCEPT ![t] = seq_ctr_[k] > 0]
    /\ hasSeen' = [hasSeen EXCEPT ![k] = @ \/ seq_ctr_[k] > 0]
    /\ UNCHANGED <<ctvars, rfloor, stampv, s1v, flipped, dbvars, cmdvars, pc, wlocals, rlocals, out, out_seq,
                   written, started, completed, lastv, rafter, rvalid, rose, lastflip, drawn, cmdhist>>

\* return has_.load(acquire)
Has(t, k) ==
    /\ pc[t] = "idle"
    /\ op'  = [op EXCEPT ![t] = "has"]
    /\ key' = [key EXCEPT ![t] = k]
    /\ ret' = [ret EXCEPT ![t] = has_[k]]
    /\ hasSeen' = [hasSeen EXCEPT ![k] = @ \/ has_[k]]
    /\ UNCHANGED <<ctvars, rfloor, stampv, s1v, flipped, dbvars, cmdvars, pc, wlocals, rlocals, out, out_seq,
                   written, started, completed, lastv, rafter, rvalid, rose, lastflip, drawn, cmdhist>>

\* ---- CmdReg::post --------------------------------------------------------
\* variant: a post on a pending register keeps the first field of the stored value
PostBeginKeepPending(t, k, val) ==
    /\ pc[t] = "idle"
    /\ val_' = [val_ EXCEPT ![k].a = IF ready_[k] THEN @ ELSE val.a]
    /\ pc'   = [pc EXCEPT ![t] = "p_copy_b"]
    /\ op'   = [op EXCEPT ![t] = "post"]
    /\ key'  = [key EXCEPT ![t] = k]
    /\ v'    = [v EXCEPT ![t] = val]
    /\ posted' = [posted EXCEPT ![k] = @ \cup {val}]
    /\ nposts' = [nposts EXCEPT ![k] = @ + 1]
    /\ taint'  = [taint EXCEPT ![k] = Busy(t, k) # {}]
    /\ cleanPosts' = [cleanPosts EXCEPT ![k] = IF Busy(t, k) # {} \/ consSince[k] > 0 THEN 0 ELSE @]
    /\ consSince'  = [consSince EXCEPT ![k] = 0]
    /\ cord' = [u \in Threads |-> IF key[u] = k THEN 0 ELSE cord[u]]
    /\ cn'   = [u \in Threads |-> IF key[u] = k THEN 0 ELSE cn[u]]
    /\ UNCHANGED <<ctvars, dbvars, ready_, nxt, s, rlocals, results, dbhist, nsucc, lastposted, edge>>

\* call post(val) on key k; val_ = v, first field
PostBegin(t, k, val) ==
    /\ pc[t] = "idle"
    /\ val_' = [val_ EXCEPT ![k].a = val.a]
    /\ pc'   = [pc EXCEPT ![t] = "p_copy_b"]
    /\ op'   = [op EXCEPT ![t] = "post"]
    /\ key'  = [key EXCEPT ![t] = k]
    /\ v'    = [v EXCEPT ![t] = val]
    /\ posted' = [posted EXCEPT ![k] = @ \cup {val}]
    /\ nposts' = [nposts EXCEPT ![k] = @ + 1]
    /\ taint'  = [taint EXCEPT ![k] = Busy(t, k) # {}]
    /\ cleanPosts' = [cleanPosts EXCEPT ![k] = IF Busy(t, k) # {} \/ consSince[k] > 0 THEN 0 ELSE @]
    /\ consSince'  = [consSince EXCEPT ![k] = 0]
    /\ cord' = [u \in Threads |-> IF key[u] = k THEN 0 ELSE cord[u]]
    /\ cn'   = [u \in Threads |-> IF key[u] = k THEN 0 ELSE cn[u]]
    /\ UNCHANGED <<ctvars, dbvars, ready_, nxt, s, rlocals, results, dbhist, nsucc, lastposted, edge>>

\* val_ = v, second field
PostCopyB(t) ==
    /\ pc[t] = "p_copy_b"
    /\ val_' = [val_ EXCEPT ![key[t]].b = v[t].b]
    /\ pc'   = [pc EXCEPT ![t] = "p_ready"]
    /\ UNCHANGED <<ctvars, dbvars, ready_, op, key, wlocals, rlocals, results, dbhist, cmdhist>>

\* ready_.store(true, release); return
PostReadyStore(t) ==
    /\ pc[t] = "p_ready"
    /\ ready_' = [ready_ EXCEPT ![key[t]] = TRUE]
    /\ pc' = [pc EXCEPT ![t] = "idle"]
    /\ v'  = [v EXCEPT ![t] = DefaultT]
    /\ cleanPosts' = [cleanPosts EXCEPT ![key[t]] = IF taint[key[t]] THEN 0 ELSE Min(@ + 1, 2)]
    /\ lastposted' = [lastposted EXCEPT ![key[t]] = v[t]]
    /\ edge' = [edge EXCEPT ![key[t]] = "Pending"]
    /\ UNCHANGED <<ctvars, dbvars, val_, op, key, nxt, s, rlocals, results, dbhist,
                   posted, nposts, nsucc, taint, consSince, cord, cn>>

\* ---- CmdReg::consume -----------------------------------------------------
\* the history a consume call records when it begins: its rank among the
\* consume calls that run one after another since the last undisturbed post
ConsumeHist(t, k) ==
    IF Busy(t, k) # {}
    THEN /\ taint' = [taint EXCEPT ![k] = TRUE]
         /\ cleanPosts' = [cleanPosts EXCEPT ![k] = 0]
         /\ consSince'  = [consSince EXCEPT ![k] = 0]
         /\ cord' = [u \in Threads |-> IF key[u] = k \/ u = t THEN 0 ELSE cord[u]]
         /\ cn'   = [u \in Threads |-> IF key[u] = k \/ u = t THEN 0 ELSE cn[u]]
    ELSE /\ taint' = [taint EXCEPT ![k] = FALSE]
         /\ UNCHANGED cleanPosts
         /\ consSince' = [consSince EXCEPT ![k] = IF cleanPosts[k] >= 1 THEN Min(@ + 1, 2) ELSE 0]
         /\ cord' = [cord EXCEPT ![t] = IF cleanPosts[k] >= 1 THEN Min(consSince[k] + 1, 2) ELSE 0]
         /\ cn'   = [cn EXCEPT ![t] = cleanPosts[k]]

\* variant: the stored value is copied to out before the pending test
ConsumeEmptyCopiesOut(t, k) ==
    /\ pc[t] = "idle"
    /\ ~ready_[k]
    /\ op'  = [op EXCEPT ![t] = "consume"]
    /\ key' = [key EXCEPT ![t] = k]
    /\ out' = [out EXCEPT ![t] = val_[k]]
    /\ ret' = [ret EXCEPT ![t] = FALSE]
    /\ ConsumeHist(t, k)
    /\ UNCHANGED <<ctvars, dbvars, cmdvars, pc, wlocals, rlocals, out_seq, dbhist,
                   posted, nposts, nsucc, lastposted, edge>>

\* call consume(out) on key k; ready_.load(acquire) is false: return false
ConsumeEmpty(t, k) ==
    /\ pc[t] = "idle"
    /\ ~ready_[k]
    /\ op'  = [op EXCEPT ![t] = "consume"]
    /\ key' = [key EXCEPT ![t] = k]
    /\ ret' = [ret EXCEPT ![t] = FALSE]
    /\ ConsumeHist(t, k)
    /\ UNCHANGED <<ctvars, dbvars, cmdvars, pc, wlocals, rlocals, out, out_seq, dbhist,
                   posted, nposts, nsucc, lastposted, edge>>

\* call consume(out) on key k; ready_.load(acquire) is true
\* (the call has no result until it returns: ret is cleared on entry)
ConsumeBegin(t, k) ==
    /\ pc[t] = "idle"
    /\ ready_[k]
    /\ pc'  = [pc EXCEPT ![t] = "c_copy_a"]
    /\ op'  = [op EXCEPT ![t] = "consume"]
    /\ key' = [key EXCEPT ![t] = k]
    /\ ret' = [ret EXCEPT ![t] = FALSE]
    /\ ConsumeHist(t, k)
    /\ UNCHANGED <<ctvars, dbvars, cmdvars, wlocals, rlocals, out, out_seq, dbhist,
                   posted, nposts, nsucc, lastposted, edge>>

\* out = val_, first field
ConsumeCopyA(t) ==
    /\ pc[t] = "c_copy_a"
    /\ out' = [out EXCEPT ![t].a = val_[key[t]].a]
    /\ pc'  = [pc EXCEPT ![t] = "c_copy_b"]
    /\ UNCHANGED <<ctvars, dbvars, cmdvars, op, key, wlocals, rlocals, out_seq, ret, dbhist, cmdhist>>

\* out = val_, second field
ConsumeCopyB(t) ==
    /\ pc[t] = "c_copy_b"
    /\ out' = [out EXCEPT ![t].b = val_[key[t]].b]
    /\ pc'  = [pc EXCEPT ![t] = "c_clear"]
    /\ UNCHANGED <<ctvars, dbvars, cmdvars, op, key, wlocals, rlocals, out_seq, ret, dbhist, cmdhist>>

\* variant: consume returns true without clearing ready_
ConsumeClearSkipped(t) ==
    /\ pc[t] = "c_clear"
    /\ ret' = [ret EXCEPT ![t] = TRUE]
    /\ pc'  = [pc EXCEPT ![t] = "idle"]
    /\ nsucc' = [nsucc EXCEPT ![key[t]] = @ + 1]
    /\ edge'  = [edge EXCEPT ![key[t]] = "Empty"]
    /\ UNCHANGED <<ctvars, dbvars, cmdvars, op, key, wlocals, rlocals, out, out_seq, dbhist,
                   posted, nposts, lastposted, taint, cleanPosts, consSince, cord, cn>>

\* ready_.store(false, release); return true
ConsumeClear(t) ==
    /\ pc[t] = "c_clear"
    /\ ready_' = [ready_ EXCEPT ![key[t]] = FALSE]
    /\ ret' = [ret EXCEPT ![t] = TRUE]
    /\ pc'  = [pc EXCEPT ![t] = "idle"]
    /\ nsucc' = [nsucc EXCEPT ![key[t]] = @ + 1]
    /\ edge'  = [edge EXCEPT ![key[t]] = "Empty"]
    /\ UNCHANGED <<ctvars, dbvars, val_, op, key, wlocals, rlocals, out, out_seq, dbhist,
                   posted, nposts, lastposted, taint, cleanPosts, consSince, cord, cn>>

\* ---- CmdReg::pending -----------------------------------------------------
\* variant: pending() clears the flag it reports (a test-and-clear)
PendingClears(t, k) ==
    /\ pc[t] = "idle"
    /\ op'  = [op EXCEPT ![t] = "pending"]
    /\ key' = [key EXCEPT ![t] = k]
    /\ ret' = [ret EXCEPT ![t] = ready_[k]]
    /\ ready_' = [ready_ EXCEPT ![k] = FALSE]
    /\ UNCHANGED <<ctvars, dbvars, val_, pc, wlocals, rlocals, out, out_seq, dbhist, cmdhist>>

\* return ready_.load(acquire)
Pending(t, k) ==
    /\ pc[t] = "idle"
    /\ op'  = [op EXCEPT ![t] = "pending"]
    /\ key' = [key EXCEPT ![t] = k]
    /\ ret' = [ret EXCEPT ![t] = ready_[k]]
    /\ UNCHANGED <<ctvars, dbvars, cmdvars, pc, wlocals, rlocals, out, out_seq, dbhist, cmdhist>>

\* ---- one writer, several readers on data key "A" ------------------------
Writer  == {1}
Readers == 2..(1 + NumReaders)

Next ==
    \/ \E t \in Writer : started["A"] < MaxWrites /\ WriteBegin(t, "A", NextVal(started["A"]))
    \/ \E t \in Writer : WriteCopyA(t)
    \/ \E t \in Writer : WriteCopyB(t)
    \/ \E t \in Writer : WriteFetchAdd(t)
    \/ \E t \in Writer : WriteSeqStore(t)
    \/ \E t \in Writer : WriteIdxStore(t)
    \/ \E t \in Writer : WriteHasStore(t)
    \/ \E t \in Readers : ReadNoValue(t, "A")
    \/ \E t \in Readers : ReadBegin(t, "A", TRUE)
    \/ \E t \in Readers : ReadIdx1(t)
    \/ \E t \in Readers : ReadSeq1(t)
    \/ \E t \in Readers : ReadCopyA(t)
    \/ \E t \in Readers : ReadCopyB(t)
    \/ \E t \in Readers : ReadIdx2Same(t)
    \/ \E t \in Readers : ReadIdx2Differs(t)
    \/ \E t \in Readers : ReadValidated(t)
    \/ \E t \in Readers : ReadSeqChanged(t)
    \/ \E t \in Readers : Has(t, "A")

Spec == Init /\ [][Next]_vars

\* ---- several writers, one reader on data key "A" ------------------------
MWriters == 1..NumWriters
MReaders == {NumWriters + 1}

NextMW ==
    \/ \E t \in MWriters : started["A"] < MaxWrites /\ WriteBegin(t, "A", NextVal(started["A"]))
    \/ \E t \in MWriters : WriteCopyA(t)
    \/ \E t \in MWriters : WriteCopyB(t)
    \/ \E t \in MWriters : WriteFetchAdd(t)
    \/ \E t \in MWriters : WriteSeqStore(t)
    \/ \E t \in MWriters : WriteIdxStore(t)
    \/ \E t \in MWriters : WriteHasStore(t)
    \/ \E t \in MReaders : ReadNoValue(t, "A")
    \/ \E t \in MReaders : ReadBegin(t, "A", TRUE)
    \/ \E t \in MReaders : ReadIdx1(t)
    \/ \E t \in MReaders : ReadSeq1(t)
    \/ \E t \in MReaders : ReadCopyA(t)
    \/ \E t \in MReaders : ReadCopyB(t)
    \/ \E t \in MReaders : ReadIdx2Same(t)
    \/ \E t \in MReaders : ReadIdx2Differs(t)
    \/ \E t \in MReaders : ReadValidated(t)
    \/ \E t \in MReaders : ReadSeqChanged(t)
    \/ \E t \in MReaders : Has(t, "A")

SpecMW == Init /\ [][NextMW]_vars

\* ---- two writers and no reader, up to one write past the counter's range ---
WrapWriters == {1, 2}

NextWrap ==
    \/ \E t \in WrapWriters :
          started["A"] < SeqMod + 1 /\ WriteBegin(t, "A", S(1 + (started["A"] % FieldMax)))
    \/ \E t \in WrapWriters : WriteCopyA(t)
    \/ \E t \in WrapWriters : WriteCopyB(t)
    \/ \E t \in WrapWriters : WriteFetchAdd(t)
    \/ \E t \in WrapWriters : WriteSeqStore(t)
    \/ \E t \in WrapWriters : WriteIdxStore(t)
    \/ \E t \in WrapWriters : WriteHasStore(t)

SpecWrap == Init /\ [][NextWrap]_vars

\* ---- two writers that may stop anywhere, one reader that keeps running ----
LiveWriters == {1, 2}
LiveReaders == {3}

\* a step of thread t inside the loop of read
ReadStep(t) ==
    \/ ReadIdx1(t)
    \/ ReadSeq1(t)
    \/ ReadCopyA(t)
    \/ ReadCopyB(t)
    \/ ReadIdx2Same(t)
    \/ ReadIdx2Differs(t)
    \/ ReadValidated(t)
    \/ ReadSeqChanged(t)

NextLive ==
    \/ \E t \in LiveWriters :
          started["A"] < MaxLiveWrites /\ WriteBegin(t, "A", NextVal(started["A"]))
    \/ \E t \in LiveWriters : WriteCopyA(t)
    \/ \E t \in LiveWriters : WriteCopyB(t)
    \/ \E t \in LiveWriters : WriteFetchAdd(t)
    \/ \E t \in LiveWriters : WriteSeqStore(t)
    \/ \E t \in LiveWriters : WriteIdxStore(t)
    \/ \E t \in LiveWriters : WriteHasStore(t)
    \/ \E t \in LiveReaders : ReadNoValue(t, "A")
    \/ \E t \in LiveReaders : ReadBegin(t, "A", TRUE)
    \/ \E t \in LiveReaders : ReadStep(t)

\* the writers are not scheduled fairly (each may stop for good, also in the
\* middle of a write); a reader inside read keeps being scheduled
SpecLive == Init /\ [][NextLive]_vars /\ \A t \in LiveReaders : WF_vars(ReadStep(t))

\* ---- a writer that never stops and a reader whose validating loads are ----
\* ---- held back until the writer has published --------------------------
StarveWriter == {1}
Victims      == {2}

\* a writer loop that passes S{1, ~1} and S{2, ~2} in turn: with one writer
\* the parity of the calls it made is the parity of the sequence counter
FreshVal(k) == S(1 + (seq_ctr_[k] % 2))

\* a step of the writer thread t, which calls write again whenever it returned
StarveWrite(t) ==
    \/ WriteBegin(t, "A", FreshVal("A"))
    \/ WriteCopyA(t)
    \/ WriteCopyB(t)
    \/ WriteFetchAdd(t)
    \/ WriteSeqStore(t)
    \/ WriteIdxStore(t)
    \/ WriteHasStore(t)

\* the scheduler runs the second load of idx_ and the second load of the
\* sequence of the reader only in states in which the register has moved on
\* since the reader's first loads; it never holds back any other step
Scheduled(t) ==
    /\ pc[t] = "r_idx2" => idx_[key[t]] # i1[t] \/ seq_[key[t]][i1[t]] # s1[t]
    /\ pc[t] = "r_seq2" => seq_[key[t]][i1[t]] # s1[t]

\* a step of reader t: it calls read again whenever it returned
StarveRead(t) ==
    \/ ReadNoValue(t, "A")
    \/ ReadBegin(t, "A", FALSE)
    \/ Scheduled(t) /\ ReadStep(t)

NextStarve ==
    \/ \E t \in StarveWriter : StarveWrite(t)
    \/ \E t \in Victims : StarveRead(t)

\* the writer keeps running; the reader is run whenever the scheduler lets
\* it, again and again (in the program its steps are enabled all along, so a
\* reader that takes infinitely many steps is scheduled fairly)
SpecStarve ==
    /\ Init /\ [][NextStarve]_vars
    /\ \A t \in StarveWriter : WF_vars(StarveWrite(t))
    /\ \A t \in Victims : SF_vars(StarveRead(t))

\* ---- one writer that writes past the counter's range, one reader ---------
LongReaders == {2}

NextLong ==
    \/ \E t \in Writer :
          started["A"] < HistMax /\ WriteBegin(t, "A", S(1 + (started["A"] % FieldMax)))
    \/ \E t \in Writer : WriteCopyA(t)
    \/ \E t \in Writer : WriteCopyB(t)
    \/ \E t \in Writer : WriteFetchAdd(t)
    \/ \E t \in Writer : WriteSeqStore(t)
    \/ \E t \in Writer : WriteIdxStore(t)
    \/ \E t \in Writer : WriteHasStore(t)
    \/ \E t \in LongReaders : ReadNoValue(t, "A")
    \/ \E t \in LongReaders : ReadBeginAfter(t, "A", TRUE)
    \/ \E t \in LongReaders : ReadStep(t)

SpecLong == Init /\ [][NextLong]_vars

\* ---- one poster, several consumers on command key "GO" ------------------
Poster    == {1}
Consumers == 2..(1 + NumConsumers)

NextCmd ==
    \/ \E t \in Poster : nposts["GO"] < MaxPosts /\ PostBegin(t, "GO", NextVal(nposts["GO"]))
    \/ \E t \in Poster : PostCopyB(t)
    \/ \E t \in Poster : PostReadyStore(t)
    \/ \E t \in Consumers : ConsumeEmpty(t, "GO")
    \/ \E t \in Consumers : ConsumeBegin(t, "GO")
    \/ \E t \in Consumers : ConsumeCopyA(t)
    \/ \E t \in Consumers : ConsumeCopyB(t)
    \/ \E t \in Consumers : ConsumeClear(t)

SpecCmd == Init /\ [][NextCmd]_vars

\* ---- one poster and one consumer on command key "GO" ----------------------
PairConsumer == {2}

NextPair ==
    \/ \E t \in Poster : nposts["GO"] < MaxPosts /\ PostBegin(t, "GO", NextVal(nposts["GO"]))
    \/ \E t \in Poster : PostCopyB(t)
    \/ \E t \in Poster : PostReadyStore(t)
    \/ \E t \in PairConsumer : ConsumeEmpty(t, "GO")
    \/ \E t \in PairConsumer : ConsumeBegin(t, "GO")
    \/ \E t \in PairConsumer : ConsumeCopyA(t)
    \/ \E t \in PairConsumer : ConsumeCopyB(t)
    \/ \E t \in PairConsumer : ConsumeClear(t)

SpecPair == Init /\ [][NextPair]_vars

\* ---- one poster, several consumers, the last of which also polls pending() -
Observers == {1 + NumConsumers}

NextEdge ==
    \/ \E t \in Poster : nposts["GO"] < MaxPosts /\ PostBegin(t, "GO", NextVal(nposts["GO"]))
    \/ \E t \in Poster : PostCopyB(t)
    \/ \E t \in Poster : PostReadyStore(t)
    \/ \E t \in Consumers : ConsumeEmpty(t, "GO")
    \/ \E t \in Consumers : ConsumeBegin(t, "GO")
    \/ \E t \in Consumers : ConsumeCopyA(t)
    \/ \E t \in Consumers : ConsumeCopyB(t)
    \/ \E t \in Consumers : ConsumeClear(t)
    \/ \E t \in Observers : Pending(t, "GO")

SpecEdge == Init /\ [][NextEdge]_vars

\* ---- a Registry<K, Traits, A, B, GO>: keys A, B Data, GO Cmd -------------
\* the calls of one client thread, forwarded to the register of the key
Clients == {1}

\* the declared key list Keys... and Traits<K>::kind
KeyList == <<"A", "B", "GO">>
RegKeys == {KeyList[i] : i \in 1..Len(KeyList)}
Kind(k) == IF k \in CmdKeys THEN "Cmd" ELSE "Data"

\* template <Key K, typename = enable_if_t<kind<K> == Kind::Data>> write(v)
RegWrite(t, k, val) == Kind(k) = "Data" /\ WriteBegin(t, k, val)

\* template <Key K, typename = enable_if_t<kind<K> == Kind::Data>> read(out, seq)
RegRead(t, k, ws) == Kind(k) = "Data" /\ (ReadNoValue(t, k) \/ ReadBegin(t, k, ws))

\* template <Key K, typename = enable_if_t<kind<K> == Kind::Data>> has()
RegHas(t, k) == Kind(k) = "Data" /\ Has(t, k)

\* variant: post<K> is gated on the Data kind
RegPostOnData(t, k, val) == Kind(k) = "Data" /\ PostBegin(t, k, val)

\* template <Key K, typename = enable_if_t<kind<K> == Kind::Cmd>> post(v)
RegPost(t, k, val) == Kind(k) = "Cmd" /\ PostBegin(t, k, val)

\* template <Key K, typename = enable_if_t<kind<K> == Kind::Cmd>> consume(out)
RegConsume(t, k) == Kind(k) = "Cmd" /\ (ConsumeEmpty(t, k) \/ ConsumeBegin(t, k))

NextReg ==
    \/ \E t \in Clients, k \in RegKeys, n \in 0..(MaxRegWrites - 1) :
          RegWrite(t, k, NextVal(n)) /\ started[k] = n
    \/ \E t \in Clients : WriteCopyA(t)
    \/ \E t \in Clients : WriteCopyB(t)
    \/ \E t \in Clients : WriteFetchAdd(t)
    \/ \E t \in Clients : WriteSeqStore(t)
    \/ \E t \in Clients : WriteIdxStore(t)
    \/ \E t \in Clients : WriteHasStore(t)
    \/ \E t \in Clients, k \in RegKeys, ws \in BOOLEAN : RegRead(t, k, ws)
    \/ \E t \in Clients : ReadIdx1(t)
    \/ \E t \in Clients : ReadSeq1(t)
    \/ \E t \in Clients : ReadCopyA(t)
    \/ \E t \in Clients : ReadCopyB(t)
    \/ \E t \in Clients : ReadIdx2Same(t)
    \/ \E t \in Clients : ReadValidated(t)
    \/ \E t \in Clients, k \in RegKeys : RegHas(t, k)
    \/ \E t \in Clients, k \in RegKeys, n \in 0..(MaxRegPosts - 1) :
          RegPost(t, k, NextVal(n)) /\ nposts[k] = n
    \/ \E t \in Clients : PostCopyB(t)
    \/ \E t \in Clients : PostReadyStore(t)
    \/ \E t \in Clients, k \in RegKeys : RegConsume(t, k)
    \/ \E t \in Clients : ConsumeCopyA(t)
    \/ \E t \in Clients : ConsumeCopyB(t)
    \/ \E t \in Clients : ConsumeClear(t)
    \/ \E t \in Clients, k \in CmdKeys : Pending(t, k)

SpecReg == Init /\ [][NextReg]_vars

\* ---- detail::index_of and Registry::idx<K>() ------------------------------
\* the key lists a registry can be declared with (repeated keys included)
KeyLists == UNION {[1..n -> RegKeys] : n \in 0..MaxKeys}

\* the keys of a list
Elems(p) == {p[i] : i \in 1..Len(p)}

\* variant: the empty pack yields value 0 and no static_assert
RECURSIVE index_ofSilent(_, _)
index_ofSilent(K, p) ==
    IF p = <<>> THEN {0}
    ELSE IF Head(p) = K THEN {0}
    ELSE {1 + i : i \in index_ofSilent(K, Tail(p))}

\* index_of<Key, K, Keys...>::value as the set of the values it yields: {0}
\* on a match at the head, 1 + the value for the tail otherwise, and no value
\* for the empty pack, whose instantiation fails the static_assert
RECURSIVE index_of(_, _)
index_of(K, p) ==
    IF p = <<>> THEN {}
    ELSE IF Head(p) = K THEN {0}
    ELSE {1 + i : i \in index_of(K, Tail(p))}

\* idx<K>() for a key the instantiation of index_of succeeds on
IdxResolve ==
    /\ ctpc = "run"
    /\ index_of(want, decl) # {}
    /\ ires' = index_of(want, decl)
    /\ ctpc' = "resolved"
    /\ UNCHANGED <<dbvars, cmdvars, ctlvars, wlocals, rlocals, results, dbhist, cmdhist,
                   decl, want, order, bytes_>>

\* idx<K>() reaches the empty pack: static_assert, the program is rejected
IdxStaticAssert ==
    /\ ctpc = "run"
    /\ index_of(want, decl) = {}
    /\ ctpc' = "rejected"
    /\ UNCHANGED <<dbvars, cmdvars, ctlvars, wlocals, rlocals, results, dbhist, cmdhist,
                   decl, want, ires, order, bytes_>>

\* every declared key list and every key of the enum looked up in it
InitIdx ==
    /\ ProgInit
    /\ decl \in KeyLists
    /\ want \in RegKeys
    /\ ires   = {}
    /\ order  = "fwd"
    /\ bytes_ = 0
    /\ ctpc   = "run"

NextIdx ==
    \/ IdxResolve
    \/ IdxStaticAssert

SpecIdx == InitIdx /\ [][NextIdx]_vars

\* ---- Registry::bytes(): sizeof(Registry) ---------------------------------
\* x rounded up to a multiple of the alignment a
AlignUp(x, a) == ((x + a - 1) \div a) * a

\* the end offset of the members ms laid out one after the other from off,
\* each at the next offset its alignment allows
RECURSIVE Place(_, _)
Place(off, ms) ==
    IF ms = <<>> THEN off
    ELSE Place(AlignUp(off, Head(ms).align) + Head(ms).size, Tail(ms))

\* the strictest alignment among the members
MaxAlign(ms) == CHOOSE a \in {ms[i].align : i \in 1..Len(ms)} :
                    \A i \in 1..Len(ms) : ms[i].align <= a

\* sizeof and alignof of a class with the non-static data members ms
ClassOf(ms) == [size |-> AlignUp(Place(0, ms), MaxAlign(ms)), align |-> MaxAlign(ms)]

\* Traits<K>::type of the tests: AType { int a; }, BType { float b; }, bool
TypeOf(k) == IF k = "GO" THEN [size |-> 1, align |-> 1] ELSE [size |-> 4, align |-> 4]

\* DBReg<T>: alignas(16) T buf_[2]; atomic<uint32_t> seq_[2], seq_ctr_, idx_;
\* atomic<bool> has_
DBRegClass(T) ==
    ClassOf(<<[size |-> 2 * T.size, align |-> Max(16, T.align)],
              [size |-> 8, align |-> 4], [size |-> 4, align |-> 4],
              [size |-> 4, align |-> 4], [size |-> 1, align |-> 1]>>)

\* CmdReg<T>: T val_; atomic<bool> ready_
CmdRegClass(T) == ClassOf(<<T, [size |-> 1, align |-> 1]>>)

\* storage_for<Key, Traits, K>::type: CmdReg<T> for a Cmd key, else DBReg<T>
storage_for(k) == IF Kind(k) = "Cmd" THEN CmdRegClass(TypeOf(k)) ELSE DBRegClass(TypeOf(k))

\* the member registers, one per declared key
Registers(d) == [i \in 1..Len(d) |-> storage_for(d[i])]

\* variant: the registry also keeps one pointer per key (an indirection table)
TupleMembersWithTable(d, ord) ==
    [i \in 1..(2 * Len(d)) |->
        IF i <= Len(d) THEN storage_for(d[i]) ELSE [size |-> 8, align |-> 8]]

\* std::tuple<storage_t<Keys>...> storage_, the only data member: its
\* elements in the order the implementation of std::tuple lays them out
\* (first to last, or last to first)
TupleMembers(d, ord) ==
    [i \in 1..Len(d) |->
        storage_for(d[IF ord = "fwd" THEN i ELSE Len(d) + 1 - i])]

\* static constexpr bytes() { return sizeof(Registry); }
Bytes ==
    /\ ctpc = "run"
    /\ bytes_' = ClassOf(TupleMembers(decl, order)).size
    /\ ctpc' = "sized"
    /\ UNCHANGED <<dbvars, cmdvars, ctlvars, wlocals, rlocals, results, dbhist, cmdhist,
                   decl, want, ires, order>>

\* every non-empty declared key list, either element order of the tuple
InitSize ==
    /\ ProgInit
    /\ decl \in KeyLists \ {<<>>}
    /\ want   = "A"
    /\ ires   = {}
    /\ order \in {"fwd", "rev"}
    /\ bytes_ = 0
    /\ ctpc   = "run"

NextSize == Bytes

SpecSize == InitSize /\ [][NextSize]_vars

\* ---- a registry with a single key, Data or Cmd, used by two threads: ------
\* ---- both call write (post, consume) on it, the first also calls has ------
\* ---- (pending) and keeps being scheduled, the second may stop anywhere ----
Workers    == {1, 2}
FairWorker == {1}

\* a step of thread t inside write, post or consume
WorkerStep(t) ==
    \/ WriteCopyA(t)
    \/ WriteCopyB(t)
    \/ WriteFetchAdd(t)
    \/ WriteSeqStore(t)
    \/ WriteIdxStore(t)
    \/ WriteHasStore(t)
    \/ PostCopyB(t)
    \/ PostReadyStore(t)
    \/ ConsumeCopyA(t)
    \/ ConsumeCopyB(t)
    \/ ConsumeClear(t)

\* Registry<K, Traits, K::A> or Registry<K, Traits, K::CMD_GO>
InitWF ==
    /\ ProgInit
    /\ decl \in {<<"A">>, <<"GO">>}
    /\ want   = "A"
    /\ ires   = {}
    /\ order  = "fwd"
    /\ bytes_ = 0
    /\ ctpc   = "run"

NextWF ==
    \/ \E t \in Workers, k \in Elems(decl) :
          started["A"] < MaxLiveWrites /\ RegWrite(t, k, NextVal(started["A"]))
    \/ \E t \in FairWorker, k \in Elems(decl) : RegHas(t, k)
    \/ \E t \in Workers, k \in Elems(decl) :
          nposts["GO"] < MaxPosts /\ RegPost(t, k, NextVal(nposts["GO"]))
    \/ \E t \in Workers, k \in Elems(decl) : RegConsume(t, k)
    \/ \E t \in FairWorker, k \in Elems(decl) \cap CmdKeys : Pending(t, k)
    \/ \E t \in Workers : WorkerStep(t)

\* only the first thread is scheduled fairly
SpecWF == InitWF /\ [][NextWF]_vars /\ \A t \in FairWorker : WF_vars(WorkerStep(t))

\* ======================= properties ======================================
\* the members of the register stored for a data key, for a command key
DataRegOf(k) == <<buf_[k], seq_[k], seq_ctr_[k], idx_[k], has_[k]>>
CmdRegOf(k)  == <<val_[k], ready_[k]>>

\* a thread whose last call was `o` and has returned
Returned(t, o) == pc[t] = "idle" /\ op[t] = o

\* C1: with one writer, every read that returns true yields the argument of
\* one single write call, never a mix of fields of two writes
C1_NoTornRead ==
    \A t \in Readers : Returned(t, "read") /\ ret[t] => out[t] \in written["A"]

\* C1 within the counter's range: the same for the reads that fewer write calls overlap than
\* the sequence counter has values (write calls that had not returned when the
\* read began and have begun when it returns)
C1_NoTornReadWithinRange ==
    \A t \in LongReaders :
        Returned(t, "read") /\ ret[t] /\ started[key[t]] - rfloor[t] < SeqMod =>
            out[t] \in written[key[t]]

\* C1 witness: a read returned the second write's value while the writer was
\* in the middle of copying the third value into the other slot
C1_Witness ==
    \E t \in Readers : /\ Returned(t, "read") /\ ret[t] /\ out[t] = S(2)
                       /\ pc[1] = "w_copy_b" /\ started["A"] = 3

\* C2: with two or more writers, every read that returns true yields the
\* argument of one single write call
C2_NoTornReadMultiWriter ==
    \A t \in MReaders : Returned(t, "read") /\ ret[t] =>
        \E w \in written[key[t]] : out[t].a = w.a /\ out[t].b = w.b

\* C3: a read that begins after write(v) completed, with no write in progress
\* and none starting before it returns, returns true and yields exactly v
C3_RoundTrip ==
    \A t \in Readers : Returned(t, "read") /\ rvalid[t] =>
        ret[t] /\ out[t] = lastv[key[t]]

\* C3 witness: the round trip of the third value written
C3_Witness ==
    \E t \in Readers : /\ Returned(t, "read") /\ rvalid[t] /\ ret[t]
                       /\ completed["A"] = 3 /\ out[t] = S(3)

\* C4: on a register on which no write (post) has started, read and has
\* (consume and pending) return false
C4_NoInitialValue ==
    \A t \in Threads : pc[t] = "idle" =>
        /\ op[t] \in {"read", "has"} => (started[key[t]] = 0 => ~ret[t])
        /\ op[t] \in {"consume", "pending"} => (nposts[key[t]] = 0 => ~ret[t])

\* C4 witness: a read of key B returned false before any write of B, although
\* key A has been written and GO posted
C4_Witness ==
    \E t \in Threads : /\ Returned(t, "read") /\ key[t] = "B" /\ ~ret[t]
                       /\ started["B"] = 0 /\ completed["A"] > 0 /\ nposts["GO"] > 0

\* C5: a read that begins after a write call has completed returns true
\* (read returns false only before the first write completed)
C5_FalseOnlyBeforeFirstWrite ==
    \A t \in Readers : Returned(t, "read") /\ rafter[t] => ret[t]

\* C5 witness: a read that began after the first write returned true while a
\* further write was under way
C5_Witness ==
    \E t \in Readers : /\ Returned(t, "read") /\ rafter[t] /\ ret[t]
                       /\ pc[1] = "w_idx_store" /\ started["A"] = 2

\* C6: has() returns true iff a write has executed through its final step,
\* and once a has() call returned true every later has() call returns true
C6_HasIffWritten ==
    [][\A t \in Readers :
          Has(t, "A") => /\ ret'[t] <=> (completed["A"] >= 1)
                         /\ hasSeen["A"] => ret'[t]]_vars

\* C6 witness: has() returned true after a has() call had returned true before
C6_Witness ==
    \E t \in Readers : /\ Returned(t, "has") /\ ret[t] /\ hasSeen["A"]
                       /\ completed["A"] = 2

C8_OneShot ==
    \A t \in Consumers : Returned(t, "consume") =>
        /\ cord[t] = 1 => (ret[t] /\ out[t] = lastposted[key[t]])
        /\ cord[t] = 2 => ~ret[t]

\* C8 witness: one consumer got the posted value, the next consume returned false
C8_Witness ==
    \E t, u \in Consumers :
        /\ Returned(t, "consume") /\ cord[t] = 1 /\ ret[t] /\ out[t] = S(1)
        /\ Returned(u, "consume") /\ cord[u] = 2 /\ ~ret[u]

\* C9: the number of consume calls that returned true never exceeds the
\* number of post calls that have started
C9_AtMostOnce ==
    \A k \in CmdKeys : nsucc[k] <= nposts[k]

\* C10: after posts that completed one after another with no consume in
\* between, the next consume yields the last posted value and the consume
\* after it returns false
C10_Overwrite ==
    \A t \in Consumers : Returned(t, "consume") /\ cn[t] >= 2 =>
        /\ cord[t] = 1 => (ret[t] /\ out[t] = lastposted[key[t]])
        /\ cord[t] = 2 => ~ret[t]

\* C10 witness: two posts, then the first consume yields the second value and
\* the second consume returns false
C10_Witness ==
    \E t, u \in Consumers :
        /\ Returned(t, "consume") /\ cord[t] = 1 /\ cn[t] = 2 /\ ret[t] /\ out[t] = S(2)
        /\ Returned(u, "consume") /\ cord[u] = 2 /\ cn[u] = 2 /\ ~ret[u]

\* C11: a consume call that finds the register not pending returns false and
\* leaves the caller's out, the stored value and the pending flag as they were
C11_ConsumeNotPending ==
    [][\A t \in Consumers :
          ConsumeEmpty(t, "GO") => /\ ~ret'[t]
                                   /\ out'[t] = out[t]
                                   /\ val_' = val_
                                   /\ ready_' = ready_]_vars

\* C11 witness: a consumer that holds the first posted value in out called
\* consume after another consumer took the second one: false, out still the first
C11_Witness ==
    \E t \in Consumers : /\ Returned(t, "consume") /\ ~ret[t] /\ out[t] = S(1)
                         /\ val_["GO"] = S(2) /\ ~ready_["GO"] /\ nsucc["GO"] = 2

C13_LastWriterWins ==
    \A t \in MReaders : Returned(t, "read") /\ rvalid[t] =>
        ret[t] /\ out[t] = lastflip[key[t]]

\* C14: a step of an operation on key K leaves the register of every other
\* key unchanged, and whether read<K>, has<K>, consume<K> succeed is decided
\* by the calls made on K alone, whatever was done on the other keys
C14_PerKeyIndependence ==
    [][\A t \in Clients :
          /\ \A k \in DataKeys \ {key'[t]} : DataRegOf(k)' = DataRegOf(k)
          /\ \A k \in CmdKeys \ {key'[t]} : CmdRegOf(k)' = CmdRegOf(k)
          /\ \A k \in DataKeys :
                /\ ReadNoValue(t, k) => completed[k] = 0
                /\ (\E ws \in BOOLEAN : ReadBegin(t, k, ws)) => completed[k] >= 1
                /\ Has(t, k) => (ret'[t] <=> completed[k] >= 1)
          /\ \A k \in CmdKeys :
                /\ ConsumeEmpty(t, k) => edge[k] = "Empty"
                /\ ConsumeBegin(t, k) => edge[k] = "Pending"]_vars

\* C14 witness: key A written twice and GO pending, while B's register is
\* still as constructed and has<B> has just returned false
C14_Witness ==
    \E t \in Clients :
        /\ Returned(t, "has") /\ key[t] = "B" /\ ~ret[t]
        /\ completed["A"] = 2 /\ ready_["GO"]
        /\ DataRegOf("B") = <<[i \in 0..1 |-> DefaultT], [i \in 0..1 |-> 0], 0, 0, FALSE>>
        /\ DataRegOf("A") # DataRegOf("B")

\* C15: every call made through the registry returns what a standalone
\* register returns after the calls made on that key alone: read<K> yields
\* (false) before the first write<K>, then (true, the last value written to K,
\* the number of writes to K); consume<K> yields (true, the last value posted
\* to K) when a post<K> has not been consumed yet, (false) otherwise
C15_ForwardingEquivalence ==
    [][\A t \in Clients :
          /\ ReadValidated(t) =>
                /\ ret'[t] /\ out'[t] = lastv[key[t]]
                /\ want_seq[t] => out_seq'[t] = completed[key[t]]
          /\ \A k \in DataKeys : ReadNoValue(t, k) => ~ret'[t] /\ completed[k] = 0
          /\ ConsumeClear(t) =>
                ret'[t] /\ out'[t] = lastposted[key[t]] /\ edge[key[t]] = "Pending"
          /\ \A k \in CmdKeys : ConsumeEmpty(t, k) => ~ret'[t] /\ edge[k] = "Empty"]_vars

\* C15 witness: after two writes of A, one write of B, a read that reported
\* sequence number 1, post GO and a consume of GO that yielded the posted
\* value, the second consume of GO returned false
C15_Witness ==
    \E t \in Clients :
        /\ Returned(t, "consume") /\ ~ret[t] /\ nposts["GO"] = 1 /\ nsucc["GO"] = 1
        /\ out[t] = S(1) /\ out_seq[t] = 1
        /\ completed["A"] = 2 /\ completed["B"] = 1 /\ lastv["B"] = S(1)

\* C16: for every key of the registry write, read and has can be called iff
\* the key's kind is Data, post and consume iff it is Cmd; no call of the
\* wrong kind ever runs
C16_KindGated ==
    \A t \in Clients :
        /\ op[t] \in {"write", "read", "has"} => Kind(key[t]) = "Data"
        /\ op[t] \in {"post", "consume"} => Kind(key[t]) = "Cmd"
        /\ pc[t] = "idle" => \A k \in RegKeys :
              /\ (ENABLED RegWrite(t, k, S(1))) <=> Kind(k) = "Data"
              /\ (ENABLED RegRead(t, k, TRUE)) <=> Kind(k) = "Data"
              /\ (ENABLED RegHas(t, k)) <=> Kind(k) = "Data"
              /\ (ENABLED RegPost(t, k, S(1))) <=> Kind(k) = "Cmd"
              /\ (ENABLED RegConsume(t, k)) <=> Kind(k) = "Cmd"

\* C16 witness: the client has used the Data operations on A and B and the
\* Cmd operations on GO
C16_Witness ==
    \E t \in Clients :
        /\ Returned(t, "consume") /\ ret[t] /\ key[t] = "GO"
        /\ completed["A"] >= 1 /\ completed["B"] >= 1

\* C17: for a key of the declared list idx<K>() yields exactly one index, the
\* position of the key's first occurrence, so different keys of the list get
\* different storage members; for a key that is not in the list the
\* resolution is rejected and yields no index
C17_IndexOfFirstOccurrence ==
    /\ ctpc = "resolved" =>
          \E i \in 0..(Len(decl) - 1) :
              /\ ires = {i}
              /\ decl[i + 1] = want
              /\ \A j \in 1..i : decl[j] # want
    /\ ctpc = "rejected" => want \notin Elems(decl) /\ ires = {}
    /\ \A k1 \in Elems(decl) :
          /\ index_of(k1, decl) # {}
          /\ \A k2 \in Elems(decl) \ {k1} : index_of(k1, decl) \cap index_of(k2, decl) = {}
    /\ \A k \in RegKeys \ Elems(decl) : index_of(k, decl) = {}

\* C17 witness: a key listed twice, behind another key, resolved to its
\* first position
C17_Witness ==
    ctpc = "resolved" /\ decl = <<"B", "A", "A">> /\ want = "A" /\ ires = {1}

\* the sum of the sizes of the member registers of a registry declared with d
RECURSIVE SumSizes(_)
SumSizes(ms) == IF ms = <<>> THEN 0 ELSE Head(ms).size + SumSizes(Tail(ms))

\* C18 as stated: bytes() equals the sum of the footprints of the member
\* registers, with nothing beyond what each register itself needs
C18_BytesIsSum ==
    ctpc = "sized" => bytes_ = SumSizes(Registers(decl))

\* C18 amended: bytes() is fixed by the key list and is the sum of the member
\* registers' sizes plus alignment padding only: a multiple of the strictest
\* member alignment, less than one such alignment per member above the sum,
\* and equal to the sum when all member registers have the same alignment
C18_BytesIsSumPlusPadding ==
    ctpc = "sized" =>
        LET regs == Registers(decl)
            sum  == SumSizes(regs)
            al   == MaxAlign(regs)
        IN  /\ bytes_ >= sum
            /\ bytes_ - sum < Len(decl) * al
            /\ bytes_ % al = 0
            /\ (\A i \in 1..Len(decl) : regs[i].align = al) => bytes_ = sum

\* C18 witness: the registry of the tests, keys A, B (Data) and GO (Cmd), has
\* 80 bytes while its three registers have 32 + 32 + 2
C18_Witness ==
    /\ ctpc = "sized" /\ decl = <<"A", "B", "GO">> /\ bytes_ = 80
    /\ SumSizes(Registers(decl)) = 66

\* C19: with any number of concurrent writers, the sequence value of each of
\* the two slots never decreases from one state to the next
C19_SlotSequenceMonotonic ==
    [][\A k \in DataKeys : \A i \in 0..1 : seq_'[k][i] >= seq_[k][i]]_vars

\* C20 as stated: for any number of writes and writers, every write draws a
\* sequence number strictly greater than every number drawn before it
C20_SequenceStrictlyIncreasing ==
    [][\A t \in WrapWriters :
          WriteFetchAdd(t) =>
              \A i \in 1..Len(drawn[key[t]]) : s'[t] > drawn[key[t]][i]]_vars

\* C20 amended: as long as fewer than SeqMod - 1 numbers have been drawn from
\* a register's counter, the next draw is strictly greater than every number
\* drawn before it, for any number of writers; the draw after that wraps to 0
C20_IncreasingBeforeWrap ==
    [][\A t \in WrapWriters :
          WriteFetchAdd(t) =>
              LET d == drawn[key[t]]
              IN  /\ Len(d) < SeqMod - 1 =>
                        /\ s'[t] = Len(d) + 1
                        /\ \A i \in 1..Len(d) : s'[t] > d[i]
                  /\ Len(d) = SeqMod - 1 => s'[t] = 0]_vars

\* C20 witness: both writers have drawn, one after the other while both were
\* inside write, and the later of the two drew the last number before the wrap
C20_Witness ==
    /\ pc[1] = "w_seq_store" /\ pc[2] = "w_seq_store"
    /\ Len(drawn["A"]) = SeqMod - 1
    /\ s[1] = SeqMod - 2 /\ s[2] = SeqMod - 1

\* the locations of a thread inside the loop of read
ReadLoop == {"r_idx1", "r_seq1", "r_copy_a", "r_copy_b", "r_idx2", "r_seq2"}

\* C21: the writers take finitely many steps and may stop anywhere; a read
\* call that found has_ true and keeps being scheduled eventually returns true
C21_ReadTerminates ==
    \A t \in LiveReaders :
        (pc[t] \in ReadLoop /\ has_[key[t]]) ~> (Returned(t, "read") /\ ret[t])

\* C21 witness: a read returned true with the first value while the writer of
\* the last write of the run had stopped in the middle of its copy
C21_Witness ==
    \E t \in LiveReaders :
        /\ Returned(t, "read") /\ ret[t] /\ out[t] = S(1)
        /\ pc[1] = "idle" /\ pc[2] = "w_copy_b" /\ started["A"] = MaxLiveWrites

\* C22: there is a schedule, fair to the reader and with one writer that
\* never stops, under which a read call never returns: the reader enters the
\* loop, keeps taking steps and retries again and again, and no step of it
\* leaves the loop
C22_ReadStarves ==
    /\ [][\A t \in Victims : pc[t] \in ReadLoop => pc'[t] \in ReadLoop]_vars
    /\ \A t \in Victims : <>(pc[t] \in ReadLoop)
    /\ \A t \in Victims : []<><<ReadIdx2Differs(t) \/ ReadSeqChanged(t)>>_vars

\* C22 witness: the victim has just retried on the last sequence number
\* before the wrap of the counter, and the writer has since written past it
C22_Witness ==
    \E t \in Victims :
        /\ pc[t] = "r_idx1" /\ s1[t] = SeqMod - 1
        /\ seq_ctr_["A"] = 1 /\ completed["A"] = HistMax

\* C23: an iteration of the read loop retries only if a writer stored to idx_
\* between the iteration's first load of idx_ and the load that failed (so an
\* iteration during which no writer takes a step succeeds), and no step of a
\* reader changes what the validation of a reader compares
C23_RetryOnlyAfterPublication ==
    [][\A t \in MReaders :
          /\ ReadIdx2Differs(t) \/ ReadSeqChanged(t) => flipped[t]
          /\ ReadNoValue(t, "A") \/ ReadBegin(t, "A", TRUE) \/ ReadStep(t) \/ Has(t, "A") =>
                idx_' = idx_ /\ seq_' = seq_]_vars

\* how far a thread is inside write, post or consume (0: not inside a call)
StepsDone(loc) ==
    CASE loc = "idle" -> 0
      [] loc \in {"w_copy_a", "p_copy_b", "c_copy_a"} -> 1
      [] loc \in {"w_copy_b", "p_ready", "c_copy_b"} -> 2
      [] loc \in {"w_fetch_add", "c_clear"} -> 3
      [] loc = "w_seq_store" -> 4
      [] loc = "w_idx_store" -> 5
      [] loc = "w_has_store" -> 6

\* C24: write, has, post, consume and pending have no loop: every step of a
\* thread inside one of them takes it one step further or returns, has,
\* pending and a consume that finds nothing return at once, and a thread that
\* keeps being scheduled returns from every call, whatever the other thread
\* does and wherever it stops
C24_WaitFree ==
    /\ [][\A t \in Workers :
            /\ pc'[t] # pc[t] =>
                  pc'[t] = "idle" \/ StepsDone(pc'[t]) = StepsDone(pc[t]) + 1
            /\ Has(t, "A") \/ Pending(t, "GO") \/ ConsumeEmpty(t, "GO") => pc'[t] = "idle"]_vars
    /\ \A t \in FairWorker : (pc[t] # "idle") ~> (pc[t] = "idle")

\* C24 witness: the fair thread has returned from its write, the second
\* write of the run, while the other thread has stopped in the middle of the
\* copy of the first one
C24_Witness ==
    /\ Returned(1, "write") /\ lastv["A"] = S(2)
    /\ pc[2] = "w_copy_b" /\ v[2] = S(1)

\* the order of the stores of a write by thread w on key k, as what holds at
\* each of its locations: the copy goes to the slot that was inactive when
\* the write began, is complete before the stamp, the stamp is in place
\* before idx_ is switched, idx_ designates the slot before has_ is set
WriteOrder(w, k) ==
    /\ pc[w] \in {"w_copy_a", "w_copy_b", "w_fetch_add", "w_seq_store", "w_idx_store"} =>
          nxt[w] = 1 - idx_[k]
    /\ pc[w] \in {"w_fetch_add", "w_seq_store", "w_idx_store", "w_has_store"} =>
          buf_[k][nxt[w]] = v[w]
    /\ pc[w] \in {"w_idx_store", "w_has_store"} => seq_[k][nxt[w]] = s[w]
    /\ pc[w] = "w_has_store" => idx_[k] = nxt[w] /\ stampv[k][nxt[w]] = v[w]
    /\ has_[k] <=> completed[k] >= 1

\* the slot idx_ designates holds the value of the write that switched idx_
\* last, whole, and the sequence on the slot was stamped by that write (the
\* constructed value and 0 before the first switch)
ActiveSlotComplete(k) ==
    /\ buf_[k][idx_[k]] = lastflip[k]
    /\ buf_[k][idx_[k]] = stampv[k][idx_[k]]
    /\ ~has_[k] /\ idx_[k] = 0 => seq_[k][idx_[k]] = 0 /\ buf_[k][idx_[k]] = DefaultT
    /\ has_[k] => buf_[k][idx_[k]] \in written[k]

\* no step changes the slot idx_ designates
ActiveSlotUntouched(k) ==
    /\ buf_'[k][idx_[k]] = buf_[k][idx_[k]]
    /\ seq_'[k][idx_[k]] = seq_[k][idx_[k]]

\* C25 as stated: with one writer the stores of a write happen in the order
\* copy, stamp, switch of idx_, has_; the active slot always holds a whole
\* value with its write's sequence; the writer never modifies the active
\* slot; whenever has_ is true the active slot's sequence is at least 1, and
\* every successful read returns a sequence greater than 0
C25_PublicationOrder ==
    /\ \A w \in Writer : WriteOrder(w, "A")
    /\ ActiveSlotComplete("A")
    /\ [][ /\ \A w \in Writer : WriteOrder(w, "A")'
           /\ ActiveSlotComplete("A")'
           /\ ActiveSlotUntouched("A")
           /\ has_'["A"] => seq_'["A"][idx_'["A"]] >= 1
           /\ \A t \in LongReaders : ReadValidated(t) => out_seq'[t] > 0 ]_vars

\* C25 amended: the same, the last two parts for as long as fewer than
\* SeqMod sequence numbers have been drawn from the register's counter (the
\* draw number SeqMod is 0)
C25_PublicationOrderBeforeWrap ==
    /\ \A w \in Writer : WriteOrder(w, "A")
    /\ ActiveSlotComplete("A")
    /\ [][ /\ \A w \in Writer : WriteOrder(w, "A")'
           /\ ActiveSlotComplete("A")'
           /\ ActiveSlotUntouched("A")
           /\ Len(drawn'["A"]) < SeqMod =>
                 /\ (has_'["A"] => seq_'["A"][idx_'["A"]] >= 1)
                 /\ \A t \in LongReaders : ReadValidated(t) => out_seq'[t] > 0
           /\ Len(drawn'["A"]) = SeqMod /\ Len(drawn["A"]) < SeqMod =>
                 \E w \in Writer : s'[w] = 0 ]_vars

\* C25 witness: a read returned the second value with sequence 2 while the
\* writer, in its third write, has stamped the inactive slot and not yet
\* switched idx_
C25_Witness ==
    \E t \in LongReaders :
        /\ Returned(t, "read") /\ ret[t] /\ out[t] = S(2) /\ out_seq[t] = 2
        /\ pc[1] = "w_idx_store" /\ s[1] = 3 /\ seq_["A"][1 - idx_["A"]] = 3

\* C26: whenever read returns true with value v and sequence s, v is the
\* argument of the write call that stamped s on the slot the read loaded s from
C26_ValueSequencePairing ==
    \A t \in MReaders :
        Returned(t, "read") /\ ret[t] => out[t] = s1v[t]

\* the write calls on key k that have stored idx_ (single writer: the calls
\* that returned and the one that is about to set has_)
Switched(k) == completed[k] + Cardinality({w \in Writing(k) : pc[w] = "w_has_store"})

\* C27: with a single writer, a read that began after n write calls had
\* returned yields the value of the n-th write or of a later one, never an
\* earlier one, and the write whose value a read returns had stored idx_ when
\* the read returned
C27_Freshness ==
    \A t \in LongReaders :
        Returned(t, "read") /\ ret[t] =>
            /\ out[t] \in written[key[t]]
            /\ out[t].a >= rfloor[t]
            /\ out[t].a <= Switched(key[t])

\* C27 within the counter's range: the same, for the reads that fewer write calls overlap than
\* the sequence counter has values (write calls that had not returned when the
\* read began and have begun when it returns)
C27_FreshnessWithinRange ==
    \A t \in LongReaders :
        Returned(t, "read") /\ ret[t] /\ started[key[t]] - rfloor[t] < SeqMod =>
            /\ out[t] \in written[key[t]]
            /\ out[t].a >= rfloor[t]
            /\ out[t].a <= Switched(key[t])

\* C27 witness: a read that began after the second write had returned yields
\* the value of the write after the counter's wrap, which has stored idx_ and
\* not yet set has_
C27_Witness ==
    \E t \in LongReaders : /\ Returned(t, "read") /\ ret[t] /\ rfloor[t] = 2
                           /\ out[t] = S(SeqMod + 1) /\ pc[1] = "w_has_store"
                           /\ completed["A"] = SeqMod

\* C28: no step of a thread other than the writer (the steps of read and has)
\* changes buf_, seq_, seq_ctr_, idx_ or has_; a read that returns false
\* leaves the caller's out and out_seq as they were; a read that returns true
\* writes them in its last step only, after s1 == seq_[i1] held, from its copy
C28_ReadIsPure ==
    [][/\ (\A w \in Writer : pc'[w] = pc[w]) => dbvars' = dbvars
       /\ \A t \in Readers :
             /\ pc'[t] # "idle" \/ ~ret'[t] =>
                   out'[t] = out[t] /\ out_seq'[t] = out_seq[t]
             /\ out'[t] # out[t] \/ out_seq'[t] # out_seq[t] =>
                   /\ pc[t] = "r_seq2" /\ seq_[key[t]][i1[t]] = s1[t]
                   /\ pc'[t] = "idle" /\ ret'[t]
                   /\ out'[t] = tmp[t]
                   /\ out_seq'[t] = IF want_seq[t] THEN s1[t] ELSE out_seq[t]]_vars

\* C28 witness: a read returned true with the first value and sequence 1
\* while the writer is stamping its second write
C28_Witness ==
    \E t \in Readers : /\ Returned(t, "read") /\ ret[t] /\ out[t] = S(1) /\ out_seq[t] = 1
                       /\ pc[1] = "w_seq_store" /\ completed["A"] = 1

\* C29: with one poster and one consumer, once the latest post call has
\* returned and no call is running, the register is pending or the consumer
\* has consumed that post's value (the posts before it were followed by a post)
C29_NoPostLost ==
    \A c \in PairConsumer :
        (\A p \in Poster : Returned(p, "post")) /\ pc[c] = "idle" =>
            \/ ready_["GO"]
            \/ nsucc["GO"] >= 1 /\ out[c] = lastposted["GO"]

\* C30: every consume that returns true yields the argument of one single
\* post call, also when a post runs concurrently
C30_ConsumedIsPosted ==
    \A c \in PairConsumer :
        Returned(c, "consume") /\ ret[c] => out[c] \in posted["GO"]
====
